---------------------------- MODULE Spec2Model ----------------------------
(***************************************************************************)
(* Model of critiquebrainz/data/backup/manage.py: the three backup         *)
(* commands dump_db, dump_json and export with their rotate step, and the  *)
(* helpers slugify and create_path.                                        *)
(*                                                                         *)
(* Strings are sequences of one-character strings.  A non-ASCII code point *)
(* is written as a named token ("e_acute", "comb_acute").                  *)
(***************************************************************************)
EXTENDS Integers, Sequences, FiniteSets, TLC

VARIABLES
    slugPc,     \* slugify harness: "start", "once", "done"
    slugIn,     \* the argument of slugify
    slugOut,    \* slugify(slugIn)
    slugTwice,  \* slugify(slugify(slugIn))
    tree,       \* create_path harness: kind of every path of the small tree
    calls,      \* create_path harness: the calls made so far, oldest first
    location,   \* the command's destination directory (a path)
    dir,        \* the entries of the destination directory
    temp,       \* dump_json: the tree under <location>/temp
    now,        \* wall clock, in the unit of the command's file-name stamp
    tick,       \* modification-time counter of the file system
    licenses,   \* License.query.all(), in the order the query returns
    reviews,    \* the review table: set of [rg, license] rows
    texts,      \* slugs whose legal text critiquebrainz/data/licenses/<slug>.txt exists
    listed,     \* the directory as os.listdir saw it in the last rotate step
    last,       \* the last command: [cmd, rotate, status, made, rcs]
    history     \* one element per command run; export: the export set's name

vars == <<slugPc, slugIn, slugOut, slugTwice, tree, calls, location, dir, temp,
          now, tick, licenses, reviews, texts, listed, last, history>>

slugVars == <<slugPc, slugIn, slugOut, slugTwice>>
pathVars == <<tree, calls>>
cmdVars == <<location, dir, temp, now, tick, licenses, reviews, texts, listed,
             last, history>>

(***************************************************************************)
(* Bounds of the model.                                                    *)
(***************************************************************************)
MaxLen == 4      \* longest slugify argument enumerated
MaxCalls == 3    \* create_path calls in one behaviour
MaxTime == 2     \* last value of the wall clock
MaxRuns == 3     \* command invocations in one behaviour

(***************************************************************************)
(* Characters.                                                             *)
(***************************************************************************)
LowerSeq == <<"a","b","c","d","e","f","g","h","i","j","k","l","m",
              "n","o","p","q","r","s","t","u","v","w","x","y","z">>
UpperSeq == <<"A","B","C","D","E","F","G","H","I","J","K","L","M",
              "N","O","P","Q","R","S","T","U","V","W","X","Y","Z">>
DigitSeq == <<"0","1","2","3","4","5","6","7","8","9">>

Range(s) == {s[i] : i \in DOMAIN s}

Lowercase == Range(LowerSeq)
Uppercase == Range(UpperSeq)
Digits == Range(DigitSeq)
NonAscii == {"e_acute", "comb_acute", "sharp_s"}

\* the characters of the model in code-point order (what str comparison uses)
CodeOrder == <<"\t", "\n", " ", "!", "-", ".", "/">> \o DigitSeq \o UpperSeq
             \o <<"_">> \o LowerSeq \o <<"sharp_s", "e_acute", "comb_acute">>

Ord(c) == CHOOSE i \in DOMAIN CodeOrder : CodeOrder[i] = c

\* \w, \s and [0-9] of the re module without re.UNICODE
IsWord(c) == c \in Lowercase \cup Uppercase \cup Digits \cup {"_"}
IsSpace(c) == c \in {" ", "\t", "\n"}
IsDigit(c) == c \in Digits
IsAscii(c) == c \notin NonAscii

ToLower(c) ==
    IF c \in Uppercase
    THEN LowerSeq[CHOOSE i \in DOMAIN UpperSeq : UpperSeq[i] = c]
    ELSE c

(***************************************************************************)
(* slugify (manage.py 240-246).                                            *)
(***************************************************************************)
\* unicodedata.normalize('NFKD', c) of one code point
Decompose(c) ==
    IF c = "e_acute" THEN <<"e", "comb_acute">> ELSE <<c>>

RECURSIVE NFKD(_)
NFKD(s) == IF s = <<>> THEN <<>> ELSE Decompose(Head(s)) \o NFKD(Tail(s))

\* .encode('ascii', 'ignore').decode('ascii')
EncodeAsciiIgnore(s) == SelectSeq(s, IsAscii)

\* re.sub('[^\w\s-]', '', value)
KeepChar(c) == IsWord(c) \/ IsSpace(c) \/ c = "-"
RemoveOthers(s) == SelectSeq(s, KeepChar)

\* value.strip()
RECURSIVE LStrip(_)
LStrip(s) == IF s # <<>> /\ IsSpace(Head(s)) THEN LStrip(Tail(s)) ELSE s

RECURSIVE RStrip(_)
RStrip(s) ==
    IF s # <<>> /\ IsSpace(s[Len(s)]) THEN RStrip(SubSeq(s, 1, Len(s) - 1)) ELSE s

Strip(s) == RStrip(LStrip(s))

\* value.lower()
Lower(s) == [i \in DOMAIN s |-> ToLower(s[i])]

\* re.sub('[-\s]+', '-', value)
IsSep(c) == c = "-" \/ IsSpace(c)

RECURSIVE DropSeps(_)
DropSeps(s) == IF s # <<>> /\ IsSep(Head(s)) THEN DropSeps(Tail(s)) ELSE s

RECURSIVE Hyphenate(_)
Hyphenate(s) ==
    IF s = <<>> THEN <<>>
    ELSE IF IsSep(Head(s)) THEN <<"-">> \o Hyphenate(DropSeps(s))
    ELSE <<Head(s)>> \o Hyphenate(Tail(s))

\* slugify without the call of lower()
slugifyNoLower(value) ==
    Hyphenate(Strip(RemoveOthers(EncodeAsciiIgnore(NFKD(value)))))

\* slugify with the two substitutions in the opposite order
slugifySwapped(value) ==
    RemoveOthers(Hyphenate(Lower(Strip(EncodeAsciiIgnore(NFKD(value))))))

slugify(value) ==
    Hyphenate(Lower(Strip(RemoveOthers(EncodeAsciiIgnore(NFKD(value))))))

(***************************************************************************)
(* create_path (manage.py 249-255) over a tree of paths.  A tree maps the  *)
(* paths that exist to "dir" or "file"; the root <<>> is a directory.      *)
(***************************************************************************)
Kind(t, p) ==
    IF p = <<>> THEN "dir" ELSE IF p \in DOMAIN t THEN t[p] ELSE "none"

Parent(p) == SubSeq(p, 1, Len(p) - 1)

Put(t, p, k) == [q \in DOMAIN t \cup {p} |-> IF q = p THEN k ELSE t[q]]

\* os.mkdir(p)
Mkdir(t, p) ==
    IF Kind(t, p) # "none" THEN [t |-> t, err |-> "EEXIST"]
    ELSE IF Kind(t, Parent(p)) = "file" THEN [t |-> t, err |-> "ENOTDIR"]
    ELSE IF Kind(t, Parent(p)) = "none" THEN [t |-> t, err |-> "ENOENT"]
    ELSE [t |-> Put(t, p, "dir"), err |-> "ok"]

\* os.makedirs(p): create the missing parents, then mkdir the leaf
RECURSIVE Makedirs(_, _)
Makedirs(t, p) ==
    LET head == Parent(p)
        r == IF head # <<>> /\ Kind(t, head) = "none"
             THEN Makedirs(t, head)
             ELSE [t |-> t, err |-> "ok"]
    IN  IF r.err \in {"ok", "EEXIST"} THEN Mkdir(r.t, p) ELSE r

\* create_path(path): OSError is re-raised unless its errno is EEXIST
create_path(t, path) ==
    LET r == Makedirs(t, path)
    IN  [t |-> r.t, raised |-> r.err \notin {"ok", "EEXIST"}]

(***************************************************************************)
(* Strings, paths and the three naming patterns of the rotate steps.       *)
(***************************************************************************)
Min(a, b) == IF a < b THEN a ELSE b
Max(a, b) == IF a > b THEN a ELSE b

\* s has the literal lit at position i
HasLit(s, i, lit) ==
    /\ i >= 1
    /\ i + Len(lit) - 1 <= Len(s)
    /\ \A k \in DOMAIN lit : s[i + k - 1] = lit[k]

\* "." of the re module: any character but a newline
AnyChar(s, i) == i >= 1 /\ i <= Len(s) /\ s[i] # "\n"

\* the position after the longest run of [0-9] from i on
RECURSIVE DigitRunEnd(_, _)
DigitRunEnd(s, i) ==
    IF i <= Len(s) /\ IsDigit(s[i]) THEN DigitRunEnd(s, i + 1) ELSE i

\* [-\w]
IsWordOrHyphen(c) == c = "-" \/ IsWord(c)

\* the position after the longest run of [-\w] from i on
RECURSIVE WordRunEnd(_, _)
WordRunEnd(s, i) ==
    IF i <= Len(s) /\ IsWordOrHyphen(s[i]) THEN WordRunEnd(s, i + 1) ELSE i

\* os.path.join(location, f)
PathJoin(loc, f) == loc \o <<"/">> \o f

FILE_PREFIX == <<"c","b","-","b","a","c","k","u","p","-">>
LitTar == <<"t","a","r">>
LitBz2 == <<"b","z","2">>
LitJson == <<"-","j","s","o","n">>
LitProduct == <<"c","r","i","t","i","q","u","e","b","r","a","i","n","z","-">>

\* re.compile("%s[0-9]+-[0-9]+.tar" % FILE_PREFIX).search(s)
DbPatternAt(s, i) ==
    /\ HasLit(s, i, FILE_PREFIX)
    /\ LET a == i + Len(FILE_PREFIX)
           j == DigitRunEnd(s, a)
       IN  /\ j > a
           /\ HasLit(s, j, <<"-">>)
           /\ \E k \in (j + 2)..DigitRunEnd(s, j + 1) :
                  AnyChar(s, k) /\ HasLit(s, k + 1, LitTar)

DbPatternSearch(str) == \E s \in {str} : \E i \in DOMAIN s : DbPatternAt(s, i)

\* re.compile("critiquebrainz-[0-9]+-[-\w]+-json.tar.bz2").search(s)
JsonPatternAt(s, i) ==
    /\ HasLit(s, i, LitProduct)
    /\ LET a == i + Len(LitProduct)
           j == DigitRunEnd(s, a)
       IN  /\ j > a
           /\ HasLit(s, j, <<"-">>)
           /\ \E k \in (j + 2)..WordRunEnd(s, j + 1) :
                  /\ HasLit(s, k, LitJson)
                  /\ AnyChar(s, k + 5)
                  /\ HasLit(s, k + 6, LitTar)
                  /\ AnyChar(s, k + 9)
                  /\ HasLit(s, k + 10, LitBz2)

JsonPatternSearch(str) ==
    \E s \in {str} : \E i \in DOMAIN s : JsonPatternAt(s, i)

\* re.compile("[0-9]+-[0-9]+").search(s)
ExportPatternSearch(str) ==
    \E s \in {str} : \E j \in DOMAIN s :
        /\ s[j] = "-"
        /\ j > 1 /\ IsDigit(s[j - 1])
        /\ j < Len(s) /\ IsDigit(s[j + 1])

\* a < b as Python compares two strings
RECURSIVE StrLess(_, _)
StrLess(a, b) ==
    IF b = <<>> THEN FALSE
    ELSE IF a = <<>> THEN TRUE
    ELSE IF Head(a) = Head(b) THEN StrLess(Tail(a), Tail(b))
    ELSE Ord(Head(a)) < Ord(Head(b))

\* list.sort() of path strings: the elements of S in ascending order
RECURSIVE SortedByName(_)
SortedByName(S) ==
    IF S = {} THEN <<>>
    ELSE LET m == CHOOSE x \in S : \A y \in S \ {x} : StrLess(x, y)
         IN  <<m>> \o SortedByName(S \ {m})

\* list.sort(key=os.path.getmtime): the names S of d, oldest first
RECURSIVE SortedByMtime(_, _)
SortedByMtime(d, S) ==
    IF S = {} THEN <<>>
    ELSE LET m == CHOOSE x \in S : \A y \in S \ {x} : d[x].mtime < d[y].mtime
         IN  <<m>> \o SortedByMtime(d, S \ {m})

\* seq[:stop] as Python slices
PySliceTo(seq, stop) ==
    IF stop < 0 THEN SubSeq(seq, 1, Max(Len(seq) + stop, 0))
    ELSE SubSeq(seq, 1, Min(stop, Len(seq)))

\* two decimal digits, as strftime pads %d, %S
TwoDigits(n) == <<DigitSeq[(n \div 10) + 1], DigitSeq[(n % 10) + 1]>>

\* strftime("%Y%m%d-%H%M%S") at second t of the modelled minute
StampSeconds(t) ==
    <<"2","0","1","4","0","5","0","1","-","1","2","0","0">> \o TwoDigits(t)

\* strftime('%Y%m%d') on day t + 1 of the modelled month
StampDay(t) == <<"2","0","1","4","0","5">> \o TwoDigits(t + 1)

(***************************************************************************)
(* Values of the variables a harness does not use.                         *)
(***************************************************************************)
NoTree == [p \in {} |-> "dir"]

IdleSlug ==
    /\ slugPc = "idle" /\ slugIn = <<>> /\ slugOut = <<>> /\ slugTwice = <<>>

IdlePath == tree = NoTree /\ calls = <<>>

IdleCmd ==
    /\ location = <<>> /\ dir = NoTree /\ temp = NoTree /\ now = 0 /\ tick = 0
    /\ licenses = <<>> /\ reviews = {} /\ texts = {} /\ listed = NoTree
    /\ last = [cmd |-> "none", rotate |-> FALSE, status |-> "none", made |-> {},
               rcs |-> <<>>]
    /\ history = <<>>

(***************************************************************************)
(* slugify harness: one argument, slugify applied once and then again.     *)
(***************************************************************************)
SlugAlphabet == {"A", "b", "1", "_", "-", " ", "!", "e_acute"}

Strings(n) == UNION {[1..k -> SlugAlphabet] : k \in 0..n}

InitSlug ==
    /\ slugPc = "start"
    /\ slugIn \in Strings(MaxLen)
    /\ slugOut = <<>> /\ slugTwice = <<>>
    /\ IdlePath /\ IdleCmd

Slugify ==
    /\ slugPc = "start"
    /\ slugOut' = slugify(slugIn)
    /\ slugPc' = "once"
    /\ UNCHANGED <<slugIn, slugTwice, pathVars, cmdVars>>

SlugifyAgain ==
    /\ slugPc = "once"
    /\ slugTwice' = slugify(slugOut)
    /\ slugPc' = "done"
    /\ UNCHANGED <<slugIn, slugOut, pathVars, cmdVars>>

NextSlug == Slugify \/ SlugifyAgain

SpecSlug == InitSlug /\ [][NextSlug]_vars

(***************************************************************************)
(* create_path harness: a small tree, create_path called on its paths.     *)
(***************************************************************************)
CompA == <<"a">>
CompB == <<"b">>
PathUniverse == {<<CompA>>, <<CompB>>, <<CompA, CompA>>, <<CompA, CompB>>,
                 <<CompA, CompB, CompA>>}

\* a tree is well formed when every entry's parent is a directory
WellFormed(t) == \A p \in DOMAIN t : Kind(t, Parent(p)) = "dir"

Trees ==
    {t \in UNION {[D -> {"dir", "file"}] : D \in SUBSET PathUniverse} :
        WellFormed(t)}

InitPath ==
    /\ tree \in Trees
    /\ calls = <<>>
    /\ IdleSlug /\ IdleCmd

CreatePath ==
    /\ Len(calls) < MaxCalls
    /\ \E p \in PathUniverse :
        LET r == create_path(tree, p)
        IN  /\ tree' = r.t
            /\ calls' = Append(calls, [path |-> p, was |-> Kind(tree, p),
                                       raised |-> r.raised,
                                       isnow |-> Kind(r.t, p)])
    /\ UNCHANGED <<slugVars, cmdVars>>

NextPath == CreatePath

SpecPath == InitPath /\ [][NextPath]_vars

(***************************************************************************)
(* The destination directory.  dir maps the name of every entry to         *)
(* [isdir, mtime, body]; body is what the entry holds.                     *)
(***************************************************************************)
File(m, body) == [isdir |-> FALSE, mtime |-> m, body |-> body]
Folder(m, body) == [isdir |-> TRUE, mtime |-> m, body |-> body]

WithEntry(d, n, e) == [q \in DOMAIN d \cup {n} |-> IF q = n THEN e ELSE d[q]]
Without(d, n) == [q \in DOMAIN d \ {n} |-> d[q]]
Only(d, S) == [q \in DOMAIN d \cap S |-> d[q]]

\* for old_archive in olds: os.remove(old_archive); os.remove raises
\* OSError on a directory and the loop ends there
RECURSIVE RemoveEach(_, _)
RemoveEach(d, olds) ==
    IF olds = <<>> THEN [dir |-> d, ok |-> TRUE]
    ELSE IF d[Head(olds)].isdir THEN [dir |-> d, ok |-> FALSE]
    ELSE RemoveEach(Without(d, Head(olds)), Tail(olds))

\* for old_dump in olds: shutil.rmtree(old_dump)
RECURSIVE RmtreeEach(_, _)
RmtreeEach(d, olds) ==
    IF olds = <<>> THEN d ELSE RmtreeEach(Without(d, Head(olds)), Tail(olds))

\* the result of a command: the directory, the clock of the file system,
\* what the rotate step listed, how the command ended, what it created and
\* the exit statuses of the external commands it ran
Outcome(d, tk, ls, st, made, rcs) ==
    [dir |-> d, tick |-> tk, listed |-> ls, status |-> st, made |-> made,
     rcs |-> rcs]

(***************************************************************************)
(* dump_db (manage.py 23-64).                                              *)
(***************************************************************************)
\* the exit status of the external command is not looked at
CallFailedIgnored(rc) == FALSE

\* subprocess.call(...) != 0
CallFailed(rc) == rc # 0

\* dump_file of line 44, without the directory
DumpFileName(t) == FILE_PREFIX \o StampSeconds(t)

\* filter(lambda x: pattern.search(x), entries) of lines 56-58, as names
DbArchives(loc, d) == {f \in DOMAIN d : DbPatternSearch(PathJoin(loc, f))}

\* the rotate step of dump_db, lines 54-62
RotateDb(loc, d, tk, made, rcs) ==
    LET archives == SortedByMtime(d, DbArchives(loc, d))
        r == RemoveEach(d, PySliceTo(archives, -2))
    IN  Outcome(r.dir, tk, d, IF r.ok THEN "ok" ELSE "rotate failed", made, rcs)

\* bzip2 refuses to overwrite an existing output file
BzipStatus(d, out, rc) == IF out \in DOMAIN d THEN 1 ELSE rc

dump_db(loc, d, tk, t, rotate, pgrc, bzrc) ==
    LET tar == DumpFileName(t) \o <<".","t","a","r">>
        bz2 == tar \o <<".","b","z","2">>
        \* the shell opens "<dump_file>.tar" for writing before pg_dump runs
        d1 == WithEntry(d, tar, File(tk + 1, "tar"))
        \* bzip2 replaces the file by "<dump_file>.tar.bz2" and keeps its mtime
        d2 == WithEntry(Without(d1, tar), bz2, File(tk + 1, "bz2"))
        bzst == BzipStatus(d1, bz2, bzrc)
    IN  IF CallFailed(pgrc)
        THEN Outcome(d1, tk + 1, NoTree, "dump failed", {tar}, <<pgrc>>)
        ELSE IF CallFailed(bzst)
        THEN Outcome(d1, tk + 1, NoTree, "compress failed", {tar}, <<pgrc, bzst>>)
        ELSE IF rotate
        THEN RotateDb(loc, d2, tk + 1, {bz2}, <<pgrc, bzst>>)
        ELSE Outcome(d2, tk + 1, NoTree, "ok", {bz2}, <<pgrc, bzst>>)

LocPlain == <<"/","s","r","v","/","b","a","c","k","u","p">>
LocDbLike == <<"/","m","n","t","/","c","b","-","b","a","c","k","u","p","-","2","0","1","4","-","0","5","-","t","a","r","b","a","l","l","s">>

DbNotes == <<"n","o","t","e","s",".","t","x","t">>
DbOldA == <<"c","b","-","b","a","c","k","u","p","-","2","0","1","4","0","4","3","0","-","2","3","5","9","5","8",".","t","a","r",".","b","z","2">>
DbOldB == <<"c","b","-","b","a","c","k","u","p","-","2","0","1","4","0","4","3","0","-","2","3","5","9","5","9",".","t","a","r",".","b","z","2">>
DbFolder == <<"c","b","-","b","a","c","k","u","p","-","2","0","1","3","-","1","2",".","t","a","r",".","d">>

\* what the destination directory may hold before the first command
DbEarlier ==
    (DbNotes :> File(1, "other")) @@ (DbOldA :> File(2, "bz2"))
    @@ (DbOldB :> File(3, "bz2")) @@ (DbFolder :> Folder(4, "other"))

Started(cmd) ==
    [cmd |-> cmd, rotate |-> FALSE, status |-> "none", made |-> {}, rcs |-> <<>>]

InitDb ==
    /\ location \in {LocPlain, LocDbLike}
    /\ \E S \in SUBSET DOMAIN DbEarlier : dir = Only(DbEarlier, S)
    /\ temp = NoTree /\ now = 0 /\ tick = 4
    /\ licenses = <<>> /\ reviews = {} /\ texts = {}
    /\ listed = NoTree
    /\ last = Started("dump_db")
    /\ history = <<>>
    /\ IdleSlug /\ IdlePath

\* one invocation of a command: the clock has moved on by at most one unit
Invoke(r, t, rotate, name) ==
    /\ dir' = r.dir
    /\ tick' = r.tick
    /\ listed' = r.listed
    /\ now' = t
    /\ last' = [cmd |-> last.cmd, rotate |-> rotate, status |-> r.status,
                made |-> r.made, rcs |-> r.rcs]
    /\ history' = Append(history, name)

Times == now..Min(now + 1, MaxTime)

DumpDb ==
    /\ last.cmd = "dump_db"
    /\ Len(history) < MaxRuns
    /\ \E t \in Times, rotate \in BOOLEAN, pgrc \in {0, 1}, bzrc \in {0, 1} :
        \E r \in {dump_db(location, dir, tick, t, rotate, pgrc, bzrc)} :
            Invoke(r, t, rotate, <<>>)
    /\ UNCHANGED <<slugVars, pathVars, location, temp, licenses, reviews, texts>>

NextDb == DumpDb

SpecDb == InitDb /\ [][NextDb]_vars

(***************************************************************************)
(* dump_json (manage.py 81-133).                                           *)
(***************************************************************************)
Temp == <<"t","e","m","p">>

\* the archive name of lines 95 and 118, without the directory
JsonArchiveName(t, safe_name) ==
    LitProduct \o StampDay(t) \o <<"-">> \o safe_name \o <<"-","j","s","o","n",".","t","a","r",".","b","z","2">>

\* Review.list(release_group, license_id=license.id)[0]
ReviewList(rv, rg, lic) == {r \in rv : r.rg = rg /\ r.license = lic}

\* the path of the JSON file of one release group, lines 104-109
RgDir(license_dir, rg) ==
    license_dir \o <<SubSeq(rg, 1, 1), SubSeq(rg, 1, 2)>>
RgFile(license_dir, rg) == RgDir(license_dir, rg) \o <<rg \o <<".","j","s","o","n">>>>

\* lines 101-111 for the release groups todo: a file for every group that
\* has reviews under the license
RECURSIVE DumpGroups(_, _, _, _, _)
DumpGroups(tmp, license_dir, todo, rv, lic) ==
    IF todo = {} THEN [t |-> tmp, raised |-> FALSE]
    ELSE LET rg == CHOOSE g \in todo : TRUE
             rest == todo \ {rg}
         IN  IF ReviewList(rv, rg, lic) = {}
             THEN DumpGroups(tmp, license_dir, rest, rv, lic)
             ELSE LET c == create_path(tmp, RgDir(license_dir, rg))
                  IN  IF c.raised THEN c
                      ELSE DumpGroups(Put(c.t, RgFile(license_dir, rg), "file"),
                                      license_dir, rest, rv, lic)

IsPrefix(p, q) == Len(p) <= Len(q) /\ SubSeq(q, 1, Len(p)) = p

\* tar.add(license_dir, arcname='reviews'): the files the directory holds,
\* by their path below it
FilesUnder(tmp, license_dir) ==
    {SubSeq(p, Len(license_dir) + 1, Len(p)) :
        p \in {q \in DOMAIN tmp : IsPrefix(license_dir, q) /\ tmp[q] = "file"}}

\* the legal text is added only next to a review file
ArchiveBodyTextWithReviews(tmp, license_dir, has_text) ==
    [reviews |-> TRUE, files |-> FilesUnder(tmp, license_dir),
     copying |-> has_text /\ FilesUnder(tmp, license_dir) # {}]

\* what the archive holds after lines 113 and 116
ArchiveBody(tmp, license_dir, has_text) ==
    [reviews |-> TRUE, files |-> FilesUnder(tmp, license_dir),
     copying |-> has_text]

EmptyArchive == [reviews |-> FALSE, files |-> {}, copying |-> FALSE]

LicBySa == <<"C","C"," ","B","Y","-","S","A"," ","3",".","0">>
LicByNcSa == <<"C","C"," ","B","Y","-","N","C","-","S","A"," ","3",".","0">>

\* slugify(license.id) of the licenses of the model, computed once
SafeName == [lic \in {LicBySa, LicByNcSa} |-> slugify(lic)]

\* the body of the loop of line 93 for one license; st is
\* [dir, temp, tick, made, failed]
PackLicense(st, lic, t, rv, txts) ==
    LET safe_name == SafeName[lic]
        name == JsonArchiveName(t, safe_name)
        license_dir == <<Temp, safe_name>>
        \* tarfile.open(..., "w:bz2") creates the archive file
        opened == [st EXCEPT !.dir = WithEntry(st.dir, name,
                                               File(st.tick + 1, EmptyArchive)),
                             !.tick = st.tick + 1,
                             !.made = st.made \cup {name}]
        c == create_path(st.temp, license_dir)
        g == DumpGroups(c.t, license_dir, {r.rg : r \in rv}, rv, lic)
        has_text == safe_name \in txts
        packed == [opened EXCEPT
                      !.temp = g.t,
                      !.dir = WithEntry(opened.dir, name,
                                  File(st.tick + 1,
                                       ArchiveBody(g.t, license_dir, has_text)))]
    IN  IF c.raised THEN [opened EXCEPT !.temp = c.t, !.failed = TRUE]
        ELSE IF g.raised THEN [opened EXCEPT !.temp = g.t, !.failed = TRUE]
        \* tar.add of a legal text that does not exist raises
        ELSE IF ~has_text THEN [packed EXCEPT !.failed = TRUE]
        ELSE packed

\* the loop of line 93 over the licenses lics, in order
RECURSIVE PackAll(_, _, _, _, _)
PackAll(st, lics, t, rv, txts) ==
    IF lics = <<>> \/ st.failed THEN st
    ELSE PackAll(PackLicense(st, Head(lics), t, rv, txts), Tail(lics), t, rv, txts)

\* filter(lambda x: pattern.search(x), entries) of lines 124-126, as names
JsonArchives(loc, d) == {f \in DOMAIN d : JsonPatternSearch(PathJoin(loc, f))}

\* the rotate step of dump_json, lines 122-131; count is License.query.count()
RotateJson(loc, d, tk, made, count) ==
    LET archives == SortedByMtime(d, JsonArchives(loc, d))
        r == RemoveEach(d, PySliceTo(archives, -2 * count))
    IN  Outcome(r.dir, tk, d, IF r.ok THEN "ok" ELSE "rotate failed", made, <<>>)

\* dump_json: the outcome and the tree left under <location>/temp
dump_json(loc, d, tmp, tk, t, rotate, lics, rv, txts) ==
    LET c == create_path(tmp, <<Temp>>)
        st == PackAll([dir |-> d, temp |-> c.t, tick |-> tk, made |-> {},
                       failed |-> c.raised], lics, t, rv, txts)
    IN  IF st.failed
        THEN [out |-> Outcome(st.dir, st.tick, NoTree, "failed", st.made, <<>>),
              temp |-> st.temp]
        \* rm -rf <location>/temp
        ELSE [out |-> IF rotate
                      THEN RotateJson(loc, st.dir, st.tick, st.made, Len(lics))
                      ELSE Outcome(st.dir, st.tick, NoTree, "ok", st.made, <<>>),
              temp |-> NoTree]

LocJsonLike == <<"/","m","n","t","/","c","r","i","t","i","q","u","e","b","r","a","i","n","z","-","2","0","1","4","-","0","5","-","j","s","o","n","-","t","a","r","-","b","z","2">>

RgA == <<"a","1","f","4">>
RgB == <<"a","2","c","9">>
ReviewRows == {[rg |-> RgA, license |-> LicBySa], [rg |-> RgB, license |-> LicByNcSa]}

JsonNotes == <<"R","E","A","D","M","E">>
JsonOldA == <<"c","r","i","t","i","q","u","e","b","r","a","i","n","z","-","2","0","1","4","0","4","3","0","-","c","c","-","b","y","-","s","a","-","3","0","-","j","s","o","n",".","t","a","r",".","b","z","2">>
JsonOldB == <<"c","r","i","t","i","q","u","e","b","r","a","i","n","z","-","2","0","1","4","0","4","3","0","-","c","c","-","b","y","-","n","c","-","s","a","-","3","0","-","j","s","o","n",".","t","a","r",".","b","z","2">>

OldArchive == [reviews |-> TRUE, files |-> {}, copying |-> TRUE]

JsonEarlier ==
    (JsonNotes :> File(1, "other")) @@ (JsonOldA :> File(2, OldArchive))
    @@ (JsonOldB :> File(3, OldArchive))

InitJson ==
    /\ location \in {LocPlain, LocJsonLike}
    /\ \E S \in {{}, {JsonNotes, JsonOldA}, DOMAIN JsonEarlier} :
           dir = Only(JsonEarlier, S)
    /\ temp = NoTree /\ now = 0 /\ tick = 3
    /\ licenses \in {<<>>, <<LicBySa>>, <<LicBySa, LicByNcSa>>}
    /\ reviews = ReviewRows
    /\ texts \in {{SafeName[LicBySa]}, {SafeName[LicBySa], SafeName[LicByNcSa]}}
    /\ listed = NoTree
    /\ last = Started("dump_json")
    /\ history = <<>>
    /\ IdleSlug /\ IdlePath

DumpJson ==
    /\ last.cmd = "dump_json"
    /\ Len(history) < MaxRuns
    /\ \E t \in Times, rotate \in BOOLEAN :
        \E r \in {dump_json(location, dir, temp, tick, t, rotate, licenses,
                            reviews, texts)} :
            Invoke(r.out, t, rotate, <<>>) /\ temp' = r.temp
    /\ UNCHANGED <<slugVars, pathVars, location, licenses, reviews, texts>>

\* a review is deleted from the database between two invocations
DeleteReview ==
    /\ last.cmd = "dump_json"
    /\ \E r \in reviews : reviews' = reviews \ {r}
    /\ UNCHANGED <<slugVars, pathVars, location, dir, temp, now, tick, licenses,
                   texts, listed, last, history>>

\* the operator installs a missing legal text between two invocations
InstallText ==
    /\ last.cmd = "dump_json"
    /\ \E lic \in Range(licenses) :
        /\ SafeName[lic] \notin texts
        /\ texts' = texts \cup {SafeName[lic]}
    /\ UNCHANGED <<slugVars, pathVars, location, dir, temp, now, tick, licenses,
                   reviews, listed, last, history>>

NextJson == DumpJson \/ DeleteReview \/ InstallText

SpecJson == InitJson /\ [][NextJson]_vars

(***************************************************************************)
(* export (manage.py 136-237).  An export set is a directory whose body is *)
(* [archives, temp]: the archives written into it and whether its temp     *)
(* directory is still there.                                               *)
(***************************************************************************)
MostRestrictive == <<"c","c","-","b","y","-","n","c","-","s","a","-","3","0">>

Archive(kind, slug, complete) ==
    [kind |-> kind, slug |-> slug, complete |-> complete]

\* tarfile.open(name, "w:bz2") followed by the tar.add calls: the archive
\* replaces one of the same name; it is complete when its legal text exists
WriteArchive(archives, kind, slug, has_text) ==
    {a \in archives : ~(a.kind = kind /\ a.slug = slug)}
        \cup {Archive(kind, slug, has_text)}

\* lines 203-220 over the licenses lics, in order; st is [archives, failed]
RECURSIVE ExportLicenses(_, _, _)
ExportLicenses(st, lics, txts) ==
    IF lics = <<>> \/ st.failed THEN st
    ELSE LET safe_name == SafeName[Head(lics)]
             has_text == safe_name \in txts
         IN  ExportLicenses(
                 [archives |-> WriteArchive(st.archives, "license", safe_name,
                                            has_text),
                  failed |-> ~has_text],
                 Tail(lics), txts)

\* lines 155-220: the base archive, the combined archive, one per license
ExportArchives(archives, lics, txts) ==
    LET has_text == MostRestrictive \in txts
        base == WriteArchive(archives, "base", <<>>, has_text)
        all == WriteArchive(base, "all", <<>>, has_text)
    IN  IF ~has_text THEN [archives |-> base, failed |-> TRUE]
        ELSE ExportLicenses([archives |-> all, failed |-> FALSE], lics, txts)

\* lines 227-231: the matching directories, sorted as strings
ExportEntries(loc, d) ==
    SortedByName({PathJoin(loc, f) :
        f \in {g \in DOMAIN d : ExportPatternSearch(PathJoin(loc, g)) /\ d[g].isdir}})

\* the file name of an entry of loc given by its path
BaseName(loc, path) == SubSeq(path, Len(loc) + 2, Len(path))

\* the rotate step of export, lines 225-235
RotateExport(loc, d, tk, made) ==
    LET entries == ExportEntries(loc, d)
        olds == PySliceTo(entries, -2)
    IN  Outcome(RmtreeEach(d, [i \in DOMAIN olds |-> BaseName(loc, olds[i])]),
                tk, d, "ok", made, <<>>)

export(loc, d, tk, t, rotate, lics, txts) ==
    LET name == StampSeconds(t)
        \* create_path(temp_dir) makes the export set unless it is there
        had == IF name \in DOMAIN d THEN d[name].body.archives ELSE {}
        born == IF name \in DOMAIN d THEN d[name].mtime ELSE tk + 1
        st == ExportArchives(had, lics, txts)
        d1 == WithEntry(d, name,
                  Folder(born, [archives |-> st.archives, temp |-> st.failed]))
    IN  IF st.failed THEN Outcome(d1, tk + 1, NoTree, "failed", {name}, <<>>)
        ELSE IF rotate THEN RotateExport(loc, d1, tk + 1, {name})
        ELSE Outcome(d1, tk + 1, NoTree, "ok", {name}, <<>>)

LocExportLike == <<"/","v","a","r","/","b","a","c","k","u","p","s","/","2","0","1","4","-","0","5","/","e","x","p","o","r","t">>

ExCache == <<".","c","a","c","h","e">>
ExLogs == <<"l","o","g","s">>
ExWeekly == <<"w","e","e","k","l","y","-","2","0","1","4","-","0","5">>
ExSql == <<"d","u","m","p","-","1","-","2",".","s","q","l">>

ExportEarlier ==
    (ExCache :> Folder(1, "other")) @@ (ExWeekly :> Folder(2, "other"))
    @@ (ExSql :> File(3, "other")) @@ (ExLogs :> Folder(4, "other"))

InitExport ==
    /\ location \in {LocPlain, LocExportLike}
    /\ \E S \in SUBSET DOMAIN ExportEarlier : dir = Only(ExportEarlier, S)
    /\ temp = NoTree /\ now = 0 /\ tick = 4
    /\ licenses \in {<<LicBySa>>, <<LicBySa, LicByNcSa>>}
    /\ reviews = {}
    /\ texts \in {{SafeName[LicBySa]}, {SafeName[LicBySa], SafeName[LicByNcSa]}}
    /\ listed = NoTree
    /\ last = Started("export")
    /\ history = <<>>
    /\ IdleSlug /\ IdlePath

Export ==
    /\ last.cmd = "export"
    /\ Len(history) < MaxRuns
    /\ \E t \in Times, rotate \in BOOLEAN :
        \E r \in {export(location, dir, tick, t, rotate, licenses, texts)} :
            Invoke(r, t, rotate,
                   [name |-> StampSeconds(t), ok |-> r.status = "ok" /\ rotate])
    /\ UNCHANGED <<slugVars, pathVars, location, temp, licenses, reviews, texts>>

NextExport == Export

SpecExport == InitExport /\ [][NextExport]_vars

(***************************************************************************)
(* The three commands, each on its own destination directory.              *)
(***************************************************************************)
Init == InitDb \/ InitJson \/ InitExport

Next == DumpDb \/ DumpJson \/ DeleteReview \/ InstallText \/ Export

Spec == Init /\ [][Next]_vars

(***************************************************************************)
(* C7 and C8: slugify.                                                     *)
(***************************************************************************)
SlugChars == Lowercase \cup Digits \cup {"-"}

Kept(value) == RemoveOthers(EncodeAsciiIgnore(NFKD(value)))

C8_Idempotent == slugPc = "done" => slugTwice = slugOut

\* slugify changed its argument, and the second application has run
C8_Witness ==
    /\ slugPc = "done"
    /\ slugOut # slugIn
    /\ Len(slugOut) >= 2
    /\ "-" \in Range(slugOut)

(***************************************************************************)
(* C5: create_path.                                                        *)
(***************************************************************************)
\* C5 as stated: create_path called twice in a row on the same path succeeds
\* both times and leaves a directory at that path; create_path called on a
\* path at which a regular file exists fails with an error.
C5_Original ==
    \A i \in DOMAIN calls :
        /\ calls[i].was = "file" => calls[i].raised
        /\ (i > 1 /\ calls[i - 1].path = calls[i].path /\ ~calls[i - 1].raised)
               => ~calls[i].raised /\ calls[i].isnow = "dir"

(***************************************************************************)
(* C1 and C6: dump_db.                                                     *)
(***************************************************************************)
\* the n oldest of the names S of directory d
Oldest(d, S, n) ==
    LET sorted == SortedByMtime(d, S) IN {sorted[i] : i \in 1..Min(n, Len(sorted))}

\* C1 as stated: after dump_db has completed with rotate=true on a directory
\* that then holds N entries whose names match the backup naming pattern,
\* exactly the N-2 oldest of them have been removed and the 2 newest
\* remain; if N <= 2 nothing is removed.
C1_Original ==
    (last.cmd = "dump_db" /\ last.status = "ok" /\ last.rotate) =>
        LET M == {f \in DOMAIN listed : DbPatternSearch(f)}
        IN  dir = Only(listed, DOMAIN listed \ Oldest(listed, M, Cardinality(M) - 2))

\* C6: when the dump command or the compression command of dump_db exits
\* with non-zero status the command aborts at that step: the rotate step is
\* not reached, every entry that was in the directory is still there, and
\* the partial output of the failed step is left in place.
C6_AbortBeforeRotate ==
    [][(/\ history' # history
        /\ last'.cmd = "dump_db"
        /\ \E i \in DOMAIN last'.rcs : last'.rcs[i] # 0)
       => (/\ last'.status \in {"dump failed", "compress failed"}
           /\ listed' = NoTree
           /\ \A f \in DOMAIN dir : f \in DOMAIN dir'
           /\ last'.made # {}
           /\ \A f \in last'.made : f \in DOMAIN dir' /\ dir'[f].body = "tar")]_vars

\* dump_db with rotate=true has aborted in the compression step while the
\* directory held more than two backups the rotate step would have pruned
C6_Witness ==
    /\ last.cmd = "dump_db"
    /\ last.rotate
    /\ last.status = "compress failed"
    /\ Cardinality({f \in DOMAIN dir : dir[f].body = "bz2"}) > 2

(***************************************************************************)
(* C2, C9 and C10: dump_json.                                              *)
(***************************************************************************)
\* the n newest of the names S of directory d
Newest(d, S, n) ==
    LET sorted == SortedByMtime(d, S)
    IN  {sorted[i] : i \in Max(Len(sorted) - n + 1, 1)..Len(sorted)}

\* C2 as stated: after dump_json has completed with rotate=true while L
\* licenses are configured, every entry whose name matches the JSON-archive
\* naming pattern has been deleted except the last 2 x L of them in
\* ascending modification-time order, for every L including L = 0.
C2_Original ==
    (last.cmd = "dump_json" /\ last.status = "ok" /\ last.rotate) =>
        LET M == {f \in DOMAIN listed : JsonPatternSearch(f)}
        IN  {f \in M : f \in DOMAIN dir} = Newest(listed, M, 2 * Len(licenses))

\* C9: a successful dump_json run leaves one archive for every configured
\* license, also for a license without reviews, and the archive holds the
\* COPYING legal text and a reviews tree.
C9_ArchivePerLicense ==
    (last.cmd = "dump_json" /\ last.status = "ok") =>
        \A i \in DOMAIN licenses :
            LET name == JsonArchiveName(now, SafeName[licenses[i]])
            IN  /\ name \in last.made
                /\ name \in DOMAIN dir
                /\ dir[name].body.copying
                /\ dir[name].body.reviews

\* a successful run has written the archive of a license that has no review:
\* its reviews tree is empty and COPYING is in it
C9_Witness ==
    /\ last.cmd = "dump_json"
    /\ last.status = "ok"
    /\ temp = NoTree
    /\ \E i \in DOMAIN licenses :
        LET name == JsonArchiveName(now, SafeName[licenses[i]])
        IN  /\ \A r \in reviews : r.license # licenses[i]
            /\ name \in last.made
            /\ dir[name].body.files = {}
            /\ dir[name].body.copying

\* the JSON file of release group rg, by its path below the license directory
RgMember(rg) == <<SubSeq(rg, 1, 1), SubSeq(rg, 1, 2), rg \o <<".","j","s","o","n">> >>

\* C10 as stated: the reviews tree of every per-license archive a successful
\* dump_json invocation writes holds a JSON file for exactly the release
\* groups that have a review under that license at the time of the
\* invocation, whatever earlier invocations did.
C10_Original ==
    [][(history' # history /\ last'.cmd = "dump_json" /\ last'.status = "ok") =>
        \A i \in DOMAIN licenses :
            dir'[JsonArchiveName(now', SafeName[licenses[i]])].body.files
                = {RgMember(r.rg) : r \in {x \in reviews : x.license = licenses[i]}}]_vars

(***************************************************************************)
(* C3: export.                                                             *)
(***************************************************************************)
\* f has the form of an export set's name, YYYYMMDD-HHMMSS
IsStampName(f) ==
    /\ Len(f) = 15
    /\ f[9] = "-"
    /\ \A i \in (1..8) \cup (10..15) : IsDigit(f[i])

\* the export set holds the base archive, the combined reviews archive and
\* one reviews archive per license
CompleteSet(body, lics) ==
    /\ \E a \in body.archives : a.kind = "base"
    /\ \E a \in body.archives : a.kind = "all"
    /\ \A i \in DOMAIN lics :
           \E a \in body.archives : a.kind = "license" /\ a.slug = SafeName[lics[i]]

\* C3 as stated: after three or more successful export invocations with
\* rotate=true the directory contains exactly 2 timestamped export sets,
\* they are the two most recently created ones, the set of the last
\* invocation among them, and each is complete.
C3_Original ==
    (/\ last.cmd = "export"
     /\ Len(history) >= 3
     /\ \A i \in DOMAIN history : history[i].ok) =>
        LET sets == {f \in DOMAIN dir : dir[f].isdir /\ IsStampName(f)}
            newest == history[Len(history)].name
            earlier == {i \in DOMAIN history : history[i].name # newest}
            recent == {newest} \cup {history[i].name :
                          i \in {j \in earlier : \A k \in earlier : k <= j}}
        IN  /\ Cardinality(sets) = 2
            /\ sets = recent
            /\ \A f \in sets : CompleteSet(dir[f].body, licenses)

(***************************************************************************)
(* C4: the rotate steps.                                                   *)
(***************************************************************************)
\* the naming pattern of the command, evaluated over a file name
NameMatches(cmd, f) ==
    CASE cmd = "dump_db" -> DbPatternSearch(f)
      [] cmd = "dump_json" -> JsonPatternSearch(f)
      [] cmd = "export" -> ExportPatternSearch(f)

\* C4 as stated: the rotate step of dump_db, dump_json and export never
\* deletes an entry of the destination directory whose file name does not
\* match the command's naming pattern, whatever the directory's path is.
C4_Original ==
    (last.rotate /\ listed # NoTree) =>
        \A f \in DOMAIN listed : ~NameMatches(last.cmd, f) => f \in DOMAIN dir

====
